---- MODULE Spec2Model ----
(***************************************************************************)
(* The video transcription workflow of one-stack: the TranscriptionForm    *)
(* component (React state, its event handlers and the asynchronous         *)
(* continuations of loadFfmpeg and handleTranscribe), the codec engine it  *)
(* drives, and the transcribe server action.                               *)
(*                                                                         *)
(* Strings are sequences of one-character or token strings.  A thrown      *)
(* value is a record [isError, message]: isError is the outcome of         *)
(* `error instanceof Error`, message the diagnostic the failure carries.   *)
(***************************************************************************)
EXTENDS Integers, Sequences, FiniteSets

\* ---------------------------------------------------------------- bounds
\* Number of handleTranscribe invocations (processing runs) explored.
MaxRuns == 2

\* ------------------------------------------------------ program constants
\* const maxLength = 100000 (TranscriptionForm.tsx:195)
maxLength == 100000

\* The files the user picks from, and the null of useState<File | null>.
Files == {"a.mp4", "b.mp4"}
NoFile == "null"
RunIds == 1..MaxRuns

\* ------------------------------------------------------------ pure helpers
Min(a, b) == IF a < b THEN a ELSE b

\* String.prototype.trim on a sequence of characters.
\* String.prototype.trim strips white space and line terminators.
WhiteSpace == {" ", "\n"}

RECURSIVE TrimLeft(_)
TrimLeft(s) ==
    IF s # <<>> /\ Head(s) \in WhiteSpace THEN TrimLeft(Tail(s)) ELSE s

RECURSIVE TrimRight(_)
TrimRight(s) ==
    IF s # <<>> /\ s[Len(s)] \in WhiteSpace THEN TrimRight(SubSeq(s, 1, Len(s) - 1)) ELSE s

Trim(s) == TrimRight(TrimLeft(s))

\* A value thrown or rejected.
ErrorOf(msg) == [isError |-> TRUE, message |-> msg]
NonError(msg) == [isError |-> FALSE, message |-> msg]
NoThrow == [isError |-> FALSE, message |-> <<>>]

\* `${error instanceof Error ? error.message : 'Unknown error'}`
MessageOrUnknown(err) == IF err.isError THEN err.message ELSE <<"Unknown error">>

\* alert(`Failed to load FFmpeg: ...`) of loadFfmpeg's catch.
LoadAlertText(err) == <<"Failed to load FFmpeg: ">> \o MessageOrUnknown(err)

\* alert(`Error: ...`) of handleTranscribe's catch.
RunAlertText(err) == <<"Error: ">> \o MessageOrUnknown(err)

\* A base64 string is kept as the prefix of length len of the base64 text of
\* the audio extracted from file src.
Str(src, len) == [src |-> src, len |-> len]
NoStr == [src |-> NoFile, len |-> 0]

\* s.substring(0, n)
Substring0(s, n) == [s EXCEPT !.len = Min(s.len, n)]

\* Mutant of Truncate: the length check is dropped and nothing is cut.
TruncateNothing(s) == s

\* base64Audio.length > maxLength ? base64Audio.substring(0, maxLength) : base64Audio
Truncate(s) == IF s.len > maxLength THEN Substring0(s, maxLength) ELSE s

\* A Blob: size bytes of the audio extracted from file src.
Blob(src, size) == [src |-> src, size |-> size]
NoBlob == [src |-> NoFile, size |-> 0]

\* Length of the base64 text of n bytes (4 characters per 3 bytes, padded).
Base64Len(n) == 4 * ((n + 2) \div 3)

\* readAsDataURL(blob) followed by result.split(',')[1]
Base64Of(blob) == Str(blob.src, Base64Len(blob.size))

\* ------------------------------------------------------ transcribe (server)
\* Message contents the completion endpoint may return.
Contents ==
    { <<>>, <<" ">>, <<"hello", " ", "world">>, <<" ", "hello", " ", "world", " ">>,
      <<"hello", "\n", "\n", "world", "\n">> }

Sentinel == <<"No transcription produced">>

\* The JSON body of a success response, by the fields it holds:
\* result.choices, result.choices[0], .message, .message.content.
JsonBody(hasChoices, hasChoice0, hasMessage, hasContent, content) ==
    [json |-> TRUE, hasChoices |-> hasChoices, hasChoice0 |-> hasChoice0,
     hasMessage |-> hasMessage, hasContent |-> hasContent, content |-> content]

NotJson ==
    [json |-> FALSE, hasChoices |-> FALSE, hasChoice0 |-> FALSE,
     hasMessage |-> FALSE, hasContent |-> FALSE, content |-> <<>>]

Bodies ==
    { NotJson,
      JsonBody(FALSE, FALSE, FALSE, FALSE, <<>>),
      JsonBody(TRUE, FALSE, FALSE, FALSE, <<>>),
      JsonBody(TRUE, TRUE, FALSE, FALSE, <<>>),
      JsonBody(TRUE, TRUE, TRUE, FALSE, <<>>) }
    \cup { JsonBody(TRUE, TRUE, TRUE, TRUE, c) : c \in Contents }

\* An HTTP response of the completion endpoint.
OkResponse(body) == [ok |-> TRUE, status |-> "200", errorText |-> <<>>, body |-> body]
ErrResponse(status) ==
    [ok |-> FALSE, status |-> status, errorText |-> <<"error body">>, body |-> NotJson]

Responses == { OkResponse(b) : b \in Bodies } \cup { ErrResponse(s) : s \in {"401", "500"} }

\* The outcome of a call: a value returned or a value thrown.
Returned(text) == [threw |-> FALSE, text |-> text, error |-> NoThrow]
Threw(err) == [threw |-> TRUE, text |-> <<>>, error |-> err]

\* result.choices && result.choices[0] && result.choices[0].message
\*   ? result.choices[0].message.content.trim() : 'No transcription produced'
ExtractTranscription(body) ==
    IF body.hasChoices /\ body.hasChoice0 /\ body.hasMessage
    THEN IF body.hasContent
         THEN Returned(Trim(body.content))
         ELSE Threw(ErrorOf(<<"Cannot read properties of undefined (reading 'trim')">>))
    ELSE Returned(Sentinel)

\* transcribe, from the response of the POST on: the status check, the JSON
\* parse and the extraction.
TranscribeResponse(resp) ==
    IF ~resp.ok
    THEN Threw(ErrorOf(<<"Transcription request failed: ", resp.status, " - ">>
                       \o resp.errorText))
    ELSE IF ~resp.body.json
    THEN Threw(ErrorOf(<<"Unexpected token in JSON">>))
    ELSE ExtractTranscription(resp.body)

\* Mutant of NoAudioData: the server action accepts any payload.
NoAudioDataNever(payload) == FALSE

\* if (!base64Audio) throw new Error('No audio data provided')
NoAudioData(payload) == payload.len = 0

\* ------------------------------------------------------ subtitle formatter
\* createSubtitleFile(text, format)
createSubtitleFile(text, format) ==
    IF format = "vtt"
    THEN <<"WEBVTT", "\n", "\n", "1", "\n", "00:00:00.000 --> 00:00:10.000", "\n">> \o text
    ELSE <<"1", "\n", "00:00:00,000 --> 00:00:10,000", "\n">> \o text

\* ------------------------------------------------------------------ state
VARIABLES
    phase,                \* "init" before the mount effect, "mounted", "unmounted"
    step,                 \* useState(1): 1 Idle, 2 FileSelected, 3 Processing, 4 Complete
    file,                 \* useState<File | null>(null): NoFile or a file
    ffmpegLoaded,         \* useState(false)
    transcriptionResult,  \* useState<string | null>(null): [isNull, text]
    isProcessing,         \* useState(false)
    isLoading,            \* useState(false)
    ffmpegRef,            \* useRef(null): 0 or the engine instance held
    engine,               \* the FFmpeg instances created, with their virtual filesystem
    load,                 \* the loadFfmpeg invocations, each with its position
    run,                  \* the handleTranscribe invocations, each with its position
    nRuns,                \* handleTranscribe invocations so far
    lastError,            \* the value the catch of the latest handleTranscribe caught
    lastPost,             \* the response to the POST of the latest run and what
                          \* transcribe made of it
    lastAlert,            \* text of the last alert()
    alertCount,           \* number of alert() calls so far
    lastDownload          \* the last file save triggered by downloadSubtitle

reactVars ==
    <<step, file, ffmpegLoaded, transcriptionResult, isProcessing, isLoading>>
alertVars == <<lastAlert, alertCount>>
vars ==
    <<phase, step, file, ffmpegLoaded, transcriptionResult, isProcessing,
      isLoading, ffmpegRef, engine, load, run, nRuns, lastError, lastPost, lastAlert,
      alertCount, lastDownload>>

\* The effect of useEffect runs once, or twice under reactStrictMode in a
\* development build: engine instances 1 and 2.
Instances == {1, 2}
\* loadFfmpeg invocations: 1 and 2 are initFFmpeg's, RunLoad(r) is run r's.
RunLoad(r) == 2 + r
LoadIds == 1..(2 + MaxRuns)
IsRunLoad(l) == l > 2
RunOfLoad(l) == l - 2

Null == [isNull |-> TRUE, text |-> <<>>]
Text(t) == [isNull |-> FALSE, text |-> t]
\* JavaScript truthiness of transcriptionResult: neither null nor "".
Truthy(res) == ~res.isNull /\ res.text # <<>>

NewEngine ==
    [created |-> FALSE, loaded |-> FALSE, terminated |-> FALSE,
     input |-> NoFile, output |-> NoBlob]
NoLoad == [pc |-> "none", inst |-> 0, killed |-> FALSE]
NoRun ==
    [pc |-> "none", file |-> NoFile, sawLoaded |-> FALSE, inst |-> 0, killed |-> FALSE,
     execFailed |-> FALSE, audioBlob |-> NoBlob, base64Audio |-> NoStr,
     payload |-> NoStr,
     loadCalls |-> 0, convertCalls |-> 0, encodeCalls |-> 0,
     transcribeCalls |-> 0, posts |-> 0]

\* No response yet to the POST of the latest run.
NoPost == [resp |-> ErrResponse("none"), out |-> Threw(NoThrow)]

Init ==
    /\ phase = "init"
    /\ step = 1
    /\ file = NoFile
    /\ ffmpegLoaded = FALSE
    /\ transcriptionResult = Null
    /\ isProcessing = FALSE
    /\ isLoading = FALSE
    /\ ffmpegRef = 0
    /\ engine = [i \in Instances |-> NewEngine]
    /\ load = [l \in LoadIds |-> NoLoad]
    /\ run = [r \in RunIds |-> NoRun]
    /\ nRuns = 0
    /\ lastError = NoThrow
    /\ lastPost = NoPost
    /\ lastAlert = <<>>
    /\ alertCount = 0
    /\ lastDownload = [name |-> <<>>, type |-> "", content |-> <<>>, prev |-> <<>>]

\* A state setter of a component: React drops the update once the component
\* has unmounted.
SetState(cur, new) == IF phase = "mounted" THEN new ELSE cur

\* ffmpeg.terminate(): the engine stops, and every call in flight on it rejects.
Terminated(e) == [e EXCEPT !.loaded = FALSE, !.terminated = TRUE]
EngineBusy(pc) == pc \in {"writeFile", "exec", "readFile"}
KillLoads(i) ==
    [l \in LoadIds |->
        IF load[l].pc = "engine" /\ load[l].inst = i
        THEN [load[l] EXCEPT !.killed = TRUE] ELSE load[l]]
KillRuns(i) ==
    [r \in RunIds |->
        IF EngineBusy(run[r].pc) /\ run[r].inst = i
        THEN [run[r] EXCEPT !.killed = TRUE] ELSE run[r]]

ErrTerminated == ErrorOf(<<"called FFmpeg.terminate()">>)
ErrNotLoaded == ErrorOf(<<"ffmpeg is not loaded">>)

\* ---------------------------------------------------------- handleTranscribe
\* setStep(1) of handleTranscribe's catch.
CatchStep == 1

\* handleTranscribe has returned: its locals (audioBlob, base64Audio,
\* trimmedBase64) are gone; the record keeps the outcome and the call counts.
Ended(rr, pc) ==
    [NoRun EXCEPT !.pc = pc, !.loadCalls = rr.loadCalls,
                  !.convertCalls = rr.convertCalls, !.encodeCalls = rr.encodeCalls,
                  !.transcribeCalls = rr.transcribeCalls, !.posts = rr.posts]

\* Mutant of Catch: a failed run calls convertToAudio again, once, before
\* it gives up.
CatchRetry(r, rr, err, priorAlerts) ==
    IF rr.convertCalls = 1 /\ ffmpegRef # 0
    THEN /\ run' = [run EXCEPT ![r] = [rr EXCEPT !.pc = "fetchFile", !.inst = ffmpegRef,
                                                 !.killed = FALSE, !.convertCalls = 2]]
         /\ alertCount' = alertCount + priorAlerts
         /\ UNCHANGED <<step, isProcessing, lastAlert, lastError>>
    ELSE /\ step' = SetState(step, 1)
         /\ isProcessing' = SetState(isProcessing, FALSE)
         /\ lastAlert' = RunAlertText(err)
         /\ alertCount' = alertCount + priorAlerts + 1
         /\ lastError' = err
         /\ run' = [run EXCEPT ![r] = Ended(rr, "failed")]

\* catch (error) { setStep(1); alert(`Error: ...`) } finally { setIsProcessing(false) }
\* for run r, whose record so far is rr; priorAlerts alerts were raised
\* earlier in the same step.
Catch(r, rr, err, priorAlerts) ==
    /\ step' = SetState(step, CatchStep)
    /\ isProcessing' = SetState(isProcessing, FALSE)
    /\ lastAlert' = RunAlertText(err)
    /\ alertCount' = alertCount + priorAlerts + 1
    /\ lastError' = err
    /\ run' = [run EXCEPT ![r] = Ended(rr, "failed")]

\* const audioBlob = await convertToAudio(file), up to its first await:
\* the engine reference is read and fetchFile(inputFile) starts.  stepNow,
\* procNow, alertNow are the values the step has given step, isProcessing
\* and lastAlert so far.
StartConvert(r, rr, stepNow, procNow, priorAlerts, alertNow) ==
    LET called == [rr EXCEPT !.convertCalls = @ + 1, !.inst = ffmpegRef] IN
    IF ffmpegRef = 0
    THEN Catch(r, called, ErrorOf(<<"FFmpeg not initialized">>), priorAlerts)
    ELSE /\ step' = stepNow
         /\ isProcessing' = procNow
         /\ lastAlert' = alertNow
         /\ alertCount' = alertCount + priorAlerts
         /\ run' = [run EXCEPT ![r] = [called EXCEPT !.pc = "fetchFile"]]
         /\ lastError' = NoThrow

\* The position of a loadFfmpeg invocation at its first await.
LoadCall(i) == [pc |-> "fetch", inst |-> i, killed |-> FALSE]

\* Mutant of ConfirmRendered: the button stays on screen while processing.
ConfirmRenderedWhileProcessing == step \in {2, 3} /\ file # NoFile /\ ~isLoading

\* The confirm button is rendered: step === 2 && file, and not disabled.
ConfirmRendered == step = 2 /\ file # NoFile /\ ~isLoading

\* handleTranscribe, up to its first await.
handleTranscribe ==
    /\ phase = "mounted"
    /\ ConfirmRendered
    /\ file # NoFile
    /\ nRuns < MaxRuns
    /\ LET r == nRuns + 1
           rr == [NoRun EXCEPT !.file = file, !.sawLoaded = ffmpegLoaded]
       IN /\ nRuns' = r
          /\ IF ffmpegLoaded
             THEN /\ StartConvert(r, rr, 3, TRUE, 0, lastAlert)
                  /\ UNCHANGED <<isLoading, load>>
             ELSE IF ffmpegRef = 0
             THEN /\ StartConvert(r, [rr EXCEPT !.loadCalls = 1], 3, TRUE, 1,
                                  LoadAlertText(ErrorOf(<<"FFmpeg reference not available">>)))
                  /\ isLoading' = FALSE
                  /\ UNCHANGED load
             ELSE /\ step' = 3
                  /\ isProcessing' = TRUE
                  /\ isLoading' = TRUE
                  /\ load' = [load EXCEPT ![RunLoad(r)] = LoadCall(ffmpegRef)]
                  /\ run' = [run EXCEPT ![r] = [rr EXCEPT !.pc = "load", !.loadCalls = 1]]
                  /\ lastError' = NoThrow
                  /\ UNCHANGED alertVars
    /\ lastPost' = NoPost
    /\ UNCHANGED <<phase, file, ffmpegLoaded, transcriptionResult,
                   ffmpegRef, engine, lastDownload>>

\* ---------------------------------------------------------------- loadFfmpeg
\* loadFfmpeg returns to its caller: initFFmpeg has nothing more to do, and
\* handleTranscribe goes on to convertToAudio.
LoadReturn(l, outcome, priorAlerts, alertNow) ==
    /\ load' = [load EXCEPT ![l].pc = outcome]
    /\ isLoading' = SetState(isLoading, FALSE)
    /\ IF IsRunLoad(l)
       THEN StartConvert(RunOfLoad(l), run[RunOfLoad(l)], step, isProcessing,
                         priorAlerts, alertNow)
       ELSE /\ lastAlert' = alertNow
            /\ alertCount' = alertCount + priorAlerts
            /\ UNCHANGED <<step, isProcessing, run, lastError>>

\* Mutant of LoadCatch: the catch of loadFfmpeg also resets the workflow,
\* as the catch of handleTranscribe does.
LoadCatchToIdle(l, err) ==
    /\ load' = [load EXCEPT ![l].pc = "failed"]
    /\ isLoading' = SetState(isLoading, FALSE)
    /\ step' = SetState(step, 1)
    /\ lastAlert' = LoadAlertText(err)
    /\ alertCount' = alertCount + 1
    /\ run' = IF IsRunLoad(l)
              THEN [run EXCEPT ![RunOfLoad(l)].pc = "fetchFile",
                               ![RunOfLoad(l)].inst = ffmpegRef,
                               ![RunOfLoad(l)].convertCalls = @ + 1]
              ELSE run
    /\ UNCHANGED <<phase, file, ffmpegLoaded, transcriptionResult, isProcessing,
                   ffmpegRef, engine, nRuns, lastError, lastPost, lastDownload>>

\* catch (error) { alert(`Failed to load FFmpeg: ...`) } finally { setIsLoading(false) }
LoadCatch(l, err) ==
    /\ LoadReturn(l, "failed", 1, LoadAlertText(err))
    /\ UNCHANGED <<phase, file, ffmpegLoaded, transcriptionResult,
                   ffmpegRef, engine, nRuns, lastPost, lastDownload>>

\* Both toBlobURL fetches resolve and ffmpeg.load() is called.
LoadFetchOk(l) ==
    /\ load[l].pc = "fetch"
    /\ load' = [load EXCEPT ![l].pc = "engine"]
    /\ UNCHANGED <<phase, reactVars, ffmpegRef, engine, run, nRuns, alertVars, lastError,
                   lastPost, lastDownload>>

\* One of the toBlobURL fetches rejects.
LoadFetchFail(l) ==
    /\ load[l].pc = "fetch"
    /\ LoadCatch(l, ErrorOf(<<"Failed to fetch">>))

\* ffmpeg.load() resolves: setFfmpegLoaded(true).
LoadEngineOk(l) ==
    /\ load[l].pc = "engine"
    /\ ~load[l].killed
    /\ engine' = [engine EXCEPT ![load[l].inst].loaded = TRUE]
    /\ ffmpegLoaded' = SetState(ffmpegLoaded, TRUE)
    /\ LoadReturn(l, "done", 0, lastAlert)
    /\ UNCHANGED <<phase, file, transcriptionResult, ffmpegRef, nRuns, lastPost,
                   lastDownload>>

\* ffmpeg.load() rejects.
LoadEngineFail(l) ==
    /\ load[l].pc = "engine"
    /\ LoadCatch(l, IF load[l].killed THEN ErrTerminated
                    ELSE ErrorOf(<<"failed to import ffmpeg-core.js">>))

\* ------------------------------------------------------------ convertToAudio
\* Variables a step of a run leaves alone unless it says otherwise.
RunFrame ==
    UNCHANGED <<phase, file, ffmpegLoaded, transcriptionResult, isLoading,
                ffmpegRef, load, nRuns, lastPost, lastDownload>>

\* A step of run r that only moves the run on.
Advance(r, rr) ==
    /\ run' = [run EXCEPT ![r] = rr]
    /\ UNCHANGED <<step, isProcessing, alertVars, lastError>>

\* What an engine call of run r in flight rejects with.
EngineError(r, msg) == IF run[r].killed THEN ErrTerminated ELSE ErrorOf(msg)

\* fetchFile(inputFile) resolves and ffmpeg.writeFile('input.mp4', ...) is called.
FetchFileOk(r) ==
    /\ run[r].pc = "fetchFile"
    /\ IF engine[run[r].inst].loaded
       THEN Advance(r, [run[r] EXCEPT !.pc = "writeFile"])
       ELSE Catch(r, run[r], ErrNotLoaded, 0)
    /\ UNCHANGED engine
    /\ RunFrame

\* fetchFile(inputFile) rejects.
FetchFileFail(r) ==
    /\ run[r].pc = "fetchFile"
    /\ Catch(r, run[r], ErrorOf(<<"The requested file could not be read">>), 0)
    /\ UNCHANGED engine
    /\ RunFrame

\* writeFile resolves and ffmpeg.exec([... 'output.mp3']) is called.
WriteFileOk(r) ==
    /\ run[r].pc = "writeFile"
    /\ ~run[r].killed
    /\ engine' = [engine EXCEPT ![run[r].inst].input = run[r].file]
    /\ Advance(r, [run[r] EXCEPT !.pc = "exec"])
    /\ RunFrame

WriteFileFail(r) ==
    /\ run[r].pc = "writeFile"
    /\ Catch(r, run[r], EngineError(r, <<"writeFile failed">>), 0)
    /\ UNCHANGED engine
    /\ RunFrame

\* Sizes in bytes of the audio the codec command may produce.
AudioSizes == {0, 3, 75000, 75003}

\* exec resolves with exit status 0: output.mp3 holds the audio of input.mp4;
\* ffmpeg.readFile('output.mp3') is called.
ExecOk(r, size) ==
    /\ run[r].pc = "exec"
    /\ ~run[r].killed
    /\ engine' = [engine EXCEPT
                    ![run[r].inst].output = Blob(engine[run[r].inst].input, size)]
    /\ Advance(r, [run[r] EXCEPT !.pc = "readFile"])
    /\ RunFrame

\* exec resolves with a failure exit status: the command wrote no output,
\* the return value is not looked at and readFile is called.
ExecExit(r) ==
    /\ run[r].pc = "exec"
    /\ ~run[r].killed
    /\ Advance(r, [run[r] EXCEPT !.pc = "readFile", !.execFailed = TRUE])
    /\ UNCHANGED engine
    /\ RunFrame

\* exec rejects.
ExecFail(r) ==
    /\ run[r].pc = "exec"
    /\ Catch(r, run[r], EngineError(r, <<"exec failed">>), 0)
    /\ UNCHANGED engine
    /\ RunFrame

\* Mutant of ReadFileOk: the binary audio is handed to transcribe directly,
\* without the encode step.
ReadFileOkSkipEncode(r) ==
    /\ run[r].pc = "readFile"
    /\ ~run[r].killed
    /\ engine[run[r].inst].output # NoBlob
    /\ Advance(r, [run[r] EXCEPT !.pc = "transcribe",
                                 !.audioBlob = engine[run[r].inst].output,
                                 !.payload = Truncate(Str(engine[run[r].inst].output.src,
                                                          engine[run[r].inst].output.size)),
                                 !.transcribeCalls = @ + 1])
    /\ UNCHANGED engine
    /\ RunFrame

\* readFile resolves with the content of output.mp3; convertToAudio returns
\* the Blob and blobToBase64(audioBlob) starts reading it.
ReadFileOk(r) ==
    /\ run[r].pc = "readFile"
    /\ ~run[r].killed
    /\ engine[run[r].inst].output # NoBlob
    /\ Advance(r, [run[r] EXCEPT !.pc = "encode",
                                 !.audioBlob = engine[run[r].inst].output,
                                 !.encodeCalls = @ + 1])
    /\ UNCHANGED engine
    /\ RunFrame

\* readFile rejects (no such file, or the engine stopped).
ReadFileFail(r) ==
    /\ run[r].pc = "readFile"
    /\ Catch(r, run[r], EngineError(r, <<"ErrnoError: FS error">>), 0)
    /\ UNCHANGED engine
    /\ RunFrame

\* --------------------------------------------------------------- blobToBase64
\* reader.onloadend with a string result: resolve(reader.result.split(',')[1]).
\* handleTranscribe then truncates, fills the FormData and calls transcribe.
EncodeOk(r) ==
    /\ run[r].pc = "encode"
    /\ LET b64 == Base64Of(run[r].audioBlob) IN
       Advance(r, [run[r] EXCEPT !.pc = "transcribe",
                                 !.base64Audio = b64,
                                 !.payload = Truncate(b64),
                                 !.transcribeCalls = @ + 1])
    /\ UNCHANGED engine
    /\ RunFrame

\* Mutant of EncodeFail: no onerror handler, so the promise of blobToBase64
\* is never settled and the run stays where it is.
EncodeFailHangs(r) ==
    /\ run[r].pc = "encode"
    /\ Advance(r, [run[r] EXCEPT !.pc = "hung"])
    /\ UNCHANGED engine
    /\ RunFrame

\* reader.onerror = reject: the promise rejects with the reader's error
\* event, which is no Error.
EncodeFail(r) ==
    /\ run[r].pc = "encode"
    /\ Catch(r, run[r], NonError(<<"FileReader error event">>), 0)
    /\ UNCHANGED engine
    /\ RunFrame

\* ----------------------------------------------------------------- transcribe
\* The server action starts: it throws on missing audio data, else issues
\* the POST to the completion endpoint.
TranscribeServe(r) ==
    /\ run[r].pc = "transcribe"
    /\ IF NoAudioData(run[r].payload)
       THEN Catch(r, run[r], ErrorOf(<<"No audio data provided">>), 0)
       ELSE Advance(r, [run[r] EXCEPT !.pc = "post", !.posts = @ + 1])
    /\ UNCHANGED engine
    /\ RunFrame

\* The POST rejects (network failure); transcribe rethrows.
PostFail(r) ==
    /\ run[r].pc = "post"
    /\ Catch(r, run[r], ErrorOf(<<"fetch failed">>), 0)
    /\ UNCHANGED engine
    /\ RunFrame

\* setTranscriptionResult(result.text); setStep(4); finally setIsProcessing(false)
Complete(r, text) ==
    /\ transcriptionResult' = SetState(transcriptionResult, Text(text))
    /\ step' = SetState(step, 4)
    /\ isProcessing' = SetState(isProcessing, FALSE)
    /\ run' = [run EXCEPT ![r] = Ended(run[r], "done")]
    /\ UNCHANGED <<alertVars, lastError>>

\* The POST resolves with resp; transcribe returns or throws, and
\* handleTranscribe stores the result or catches.
PostResponse(r, resp) ==
    /\ run[r].pc = "post"
    /\ LET out == TranscribeResponse(resp) IN
       /\ lastPost' = [resp |-> resp, out |-> out]
       /\ IF out.threw
          THEN /\ Catch(r, run[r], out.error, 0)
               /\ UNCHANGED transcriptionResult
          ELSE Complete(r, out.text)
    /\ UNCHANGED <<phase, file, ffmpegLoaded, isLoading, ffmpegRef, engine,
                   load, nRuns, lastDownload>>

\* ---------------------------------------------------------------- user events
EventFrame ==
    UNCHANGED <<phase, ffmpegLoaded, transcriptionResult, isProcessing, isLoading,
                ffmpegRef, engine, load, run, nRuns, alertVars, lastError, lastPost,
                lastDownload>>

\* Mutant of SelectRendered: the file input is also offered in Complete.
SelectRenderedInComplete == step \in {1, 4}

\* The drop zone and the file input are rendered: step === 1.
SelectRendered == step = 1

\* handleFileChange(selectedFile): setFile(selectedFile); setStep(2).
handleFileChange(selectedFile) ==
    /\ file' = selectedFile
    /\ step' = 2

\* handleDrop: f is e.dataTransfer.files[0], NoFile when nothing was dropped.
\* (The dragActive highlight of the drop zone is not modelled.)
handleDrop(f) ==
    /\ phase = "mounted"
    /\ SelectRendered
    /\ IF f # NoFile THEN handleFileChange(f) ELSE UNCHANGED <<step, file>>
    /\ EventFrame

\* onChange of the file input: f is e.target.files?.[0].
onChange(f) ==
    /\ phase = "mounted"
    /\ SelectRendered
    /\ IF f # NoFile THEN handleFileChange(f) ELSE UNCHANGED <<step, file>>
    /\ EventFrame

\* The result view and its download buttons are rendered:
\* step === 4 && transcriptionResult.
ResultRendered == step = 4 /\ Truthy(transcriptionResult)

\* Mutant of downloadSubtitle: the download also starts the workflow over.
downloadSubtitleAndReset(format) ==
    /\ phase = "mounted"
    /\ step = 4 /\ Truthy(transcriptionResult)
    /\ lastDownload' =
          [name |-> <<"transcript.", format>>,
           type |-> IF format = "vtt" THEN "text/vtt" ELSE "application/x-subrip",
           content |-> createSubtitleFile(transcriptionResult.text, format),
           prev |-> lastDownload.name]
    /\ step' = 1
    /\ file' = NoFile
    /\ transcriptionResult' = [isNull |-> TRUE, text |-> <<>>]
    /\ UNCHANGED <<phase, ffmpegLoaded, isProcessing, isLoading, ffmpegRef, engine, load,
                   run, nRuns, lastAlert, alertCount, lastError, lastPost>>

\* downloadSubtitle(format): the save of transcript.<format>.
downloadSubtitle(format) ==
    /\ phase = "mounted"
    /\ ResultRendered
    /\ Truthy(transcriptionResult)
    /\ lastDownload' =
          [name |-> <<"transcript.", format>>,
           type |-> IF format = "vtt" THEN "text/vtt" ELSE "application/x-subrip",
           content |-> createSubtitleFile(transcriptionResult.text, format),
           prev |-> lastDownload.name]
    /\ UNCHANGED <<phase, reactVars, ffmpegRef, engine, load, run, nRuns, alertVars,
                   lastError, lastPost>>

\* ------------------------------------------------------------ mount / unmount
\* The effect of useEffect: ffmpegRef.current = new FFmpeg(); loadFfmpeg().
\* With strict set (reactStrictMode in a development build) React runs the
\* effect, its cleanup and the effect again.
Mount(strict) ==
    /\ phase = "init"
    /\ phase' = "mounted"
    /\ isLoading' = TRUE
    /\ IF strict
       THEN /\ ffmpegRef' = 2
            /\ engine' = [engine EXCEPT ![1] = Terminated([@ EXCEPT !.created = TRUE]),
                                        ![2].created = TRUE]
            /\ load' = [load EXCEPT ![1] = LoadCall(1), ![2] = LoadCall(2)]
       ELSE /\ ffmpegRef' = 1
            /\ engine' = [engine EXCEPT ![1].created = TRUE]
            /\ load' = [load EXCEPT ![1] = LoadCall(1)]
    /\ UNCHANGED <<step, file, ffmpegLoaded, transcriptionResult, isProcessing,
                   run, nRuns, alertVars, lastError, lastPost, lastDownload>>

\* The cleanup of the effect: ffmpegRef.current.terminate().
Unmount ==
    /\ phase = "mounted"
    /\ phase' = "unmounted"
    /\ IF ffmpegRef # 0
       THEN /\ engine' = [engine EXCEPT ![ffmpegRef] = Terminated(@)]
            /\ load' = KillLoads(ffmpegRef)
            /\ run' = KillRuns(ffmpegRef)
       ELSE UNCHANGED <<engine, load, run>>
    /\ UNCHANGED <<reactVars, ffmpegRef, nRuns, alertVars, lastError, lastPost,
                   lastDownload>>

\* ----------------------------------------------------------------------- spec
Next ==
    \/ \E strict \in BOOLEAN : Mount(strict)
    \/ Unmount
    \/ \E f \in Files \cup {NoFile} : handleDrop(f)
    \/ \E f \in Files \cup {NoFile} : onChange(f)
    \/ handleTranscribe
    \/ \E format \in {"vtt", "srt"} : downloadSubtitle(format)
    \/ \E l \in LoadIds : LoadFetchOk(l)
    \/ \E l \in LoadIds : LoadFetchFail(l)
    \/ \E l \in LoadIds : LoadEngineOk(l)
    \/ \E l \in LoadIds : LoadEngineFail(l)
    \/ \E r \in RunIds : FetchFileOk(r)
    \/ \E r \in RunIds : FetchFileFail(r)
    \/ \E r \in RunIds : WriteFileOk(r)
    \/ \E r \in RunIds : WriteFileFail(r)
    \/ \E r \in RunIds, size \in AudioSizes : ExecOk(r, size)
    \/ \E r \in RunIds : ExecExit(r)
    \/ \E r \in RunIds : ExecFail(r)
    \/ \E r \in RunIds : ReadFileOk(r)
    \/ \E r \in RunIds : ReadFileFail(r)
    \/ \E r \in RunIds : EncodeOk(r)
    \/ \E r \in RunIds : EncodeFail(r)
    \/ \E r \in RunIds : TranscribeServe(r)
    \/ \E r \in RunIds, resp \in Responses : PostResponse(r, resp)
    \/ \E r \in RunIds : PostFail(r)

Spec == Init /\ [][Next]_vars

\* Every awaited external step settles: the pending await of initialization l
\* (toBlobURL, ffmpeg.load) and of run r (fetchFile, writeFile, exec,
\* readFile, the FileReader, the server action and its POST) is resolved or
\* rejected eventually.
LoadStep(l) ==
    \/ LoadFetchOk(l) \/ LoadFetchFail(l)
    \/ LoadEngineOk(l) \/ LoadEngineFail(l)
RunStep(r) ==
    \/ FetchFileOk(r) \/ FetchFileFail(r)
    \/ WriteFileOk(r) \/ WriteFileFail(r)
    \/ (\E size \in AudioSizes : ExecOk(r, size)) \/ ExecExit(r) \/ ExecFail(r)
    \/ ReadFileOk(r) \/ ReadFileFail(r)
    \/ EncodeOk(r) \/ EncodeFail(r)
    \/ TranscribeServe(r)
    \/ (\E resp \in Responses : PostResponse(r, resp)) \/ PostFail(r)
FairSpec ==
    /\ Spec
    /\ \A l \in LoadIds : WF_vars(LoadStep(l))
    /\ \A r \in RunIds : WF_vars(RunStep(r))

\* ===================================================================== claims
ActiveRuns == { r \in RunIds : run[r].pc \notin {"none", "done", "failed"} }

\* Run r's failure is caught by handleTranscribe in this step.
RunFails(r) == run[r].pc # "failed" /\ run'[r].pc = "failed"

\* Run r calls convertToAudio in this step.
ConvertInvoked(r) == run'[r].convertCalls > run[r].convertCalls

\* loadFfmpeg invocation l fails in this step.
LoadFails(l) == load[l].pc # "failed" /\ load'[l].pc = "failed"

Contains(text, token) == \E i \in DOMAIN text : text[i] = token

\* C1: the workflow starts at Idle and every change of step is one of
\* Idle->FileSelected (a file is stored), FileSelected->Processing (a run
\* starts), Processing->Complete, Processing->Idle; no step leaves Complete.
C1_LegalTransitions ==
    /\ step = 1
    /\ [][ /\ step' # step =>
                <<step, step'>> \in {<<1, 2>>, <<2, 3>>, <<3, 4>>, <<3, 1>>}
           /\ (step = 1 /\ step' = 2) => file' \in Files
           /\ (step = 2 /\ step' = 3) => nRuns' = nRuns + 1
           /\ step = 4 => step' = 4 ]_vars

\* C1 witness: Complete was reached on the second run, after a first run
\* went back to Idle, and a download was made in Complete.
C1_Witness == step = 4 /\ nRuns = 2 /\ lastDownload.name # <<>>

\* C2 (as claimed): whenever a failure of a run is caught, step goes from
\* Processing to Idle and an alert is raised whose text is "Error: " followed
\* by the message of the value caught; for a non-success HTTP status the
\* alert holds the status code.
C2_FailureAlertsMessage ==
    [][\A r \in RunIds :
          (phase = "mounted" /\ RunFails(r)) =>
              /\ step = 3 /\ step' = 1
              /\ alertCount' > alertCount
              /\ lastAlert' = <<"Error: ">> \o lastError'.message
              /\ (run[r].pc = "post" /\ lastPost' # lastPost /\ ~lastPost'.resp.ok) =>
                     Contains(lastAlert', lastPost'.resp.status)]_vars

\* C3 (as claimed): when a run fails and the workflow returns to Idle, no
\* file and no transcription result is held any more.
C3_FailureDiscardsFile ==
    [][\A r \in RunIds :
          (phase = "mounted" /\ RunFails(r)) =>
              /\ step' = 1
              /\ file' = NoFile
              /\ transcriptionResult'.isNull]_vars

\* C4 (as claimed): in Complete the result stored is the text transcribe
\* returned, and the result view with its download buttons is rendered.
C4_CompleteHoldsResult ==
    step = 4 =>
        /\ ~lastPost.out.threw
        /\ transcriptionResult = Text(lastPost.out.text)
        /\ ResultRendered

\* C5: at most one processing run is in flight.
C5_OneRunInFlight == Cardinality(ActiveRuns) <= 1

\* C5 witness: a second run is under way after the first one ended.
C5_Witness == run[1].pc = "failed" /\ run[2].pc = "exec"

\* C6 (as claimed): convertToAudio is called only on an engine whose
\* initialization has completed successfully, and never while one is in flight.
C6_ConvertAfterInit ==
    [][\A r \in RunIds :
          (phase = "mounted" /\ ConvertInvoked(r)) =>
              /\ ffmpegRef' # 0
              /\ engine'[ffmpegRef'].loaded
              /\ \A l \in LoadIds :
                    ~(load'[l].pc \in {"fetch", "engine"} /\ load'[l].inst = ffmpegRef')]_vars

\* C7: a failure of loadFfmpeg raises the alert "Failed to load FFmpeg: ..."
\* and leaves step as it was.
C7_InitFailureKeepsStep ==
    [][\A l \in LoadIds :
          LoadFails(l) =>
              /\ step' = step
              /\ alertCount' = alertCount + 1
              /\ Head(lastAlert') = "Failed to load FFmpeg: "]_vars

\* C7 witness: the initialization attempted at confirmation has failed and
\* the workflow is still Processing.
C7_Witness == load[RunLoad(1)].pc = "failed" /\ step = 3 /\ run[1].pc = "fetchFile"

\* C8: the payload handed to transcribe is at most maxLength long; it is the
\* encoded string itself when that is at most maxLength long, else its first
\* maxLength characters; truncating it again changes nothing.
C8_PayloadTruncated ==
    \A r \in RunIds :
        run[r].pc \in {"transcribe", "post"} =>
            LET s == run[r].base64Audio
                t == run[r].payload
            IN /\ t.len <= maxLength
               /\ s.len <= maxLength => t = s
               /\ s.len > maxLength => t = [src |-> s.src, len |-> maxLength]
               /\ Truncate(t) = t

\* C8 witness: an encoded string longer than maxLength was cut and posted.
C8_Witness ==
    \E r \in RunIds :
        /\ run[r].pc = "post"
        /\ run[r].base64Audio.len > maxLength
        /\ run[r].payload.len = maxLength

\* C9 (as claimed): for a success response with a JSON body, transcribe
\* returns the sentinel when choices, choices[0], message or content is
\* absent, and the trimmed content when all are present; it never throws.
C9_SentinelWhenAbsent ==
    LET b == lastPost.resp.body IN
    (lastPost.resp.ok /\ b.json) =>
        IF b.hasChoices /\ b.hasChoice0 /\ b.hasMessage /\ b.hasContent
        THEN lastPost.out = Returned(Trim(b.content))
        ELSE lastPost.out = Returned(Sentinel)

\* C10: in each run convertToAudio, blobToBase64 and the POST happen at most
\* once, and a run starts only from FileSelected with no other run in flight.
C10_NoRetry ==
    /\ [](\A r \in RunIds :
             /\ run[r].convertCalls <= 1
             /\ run[r].encodeCalls <= 1
             /\ run[r].transcribeCalls <= 1
             /\ run[r].posts <= 1)
    /\ [][nRuns' # nRuns =>
             /\ nRuns' = nRuns + 1
             /\ step = 2 /\ file \in Files
             /\ ActiveRuns = {}]_vars

\* C10 witness: the first run failed after its single POST, and a second
\* run, started by a new confirmation, has issued its own.
C10_Witness ==
    /\ run[1].pc = "failed" /\ run[1].posts = 1
    /\ run[2].pc = "post" /\ run[2].convertCalls = 1


\* C11: in Complete, every download request (vtt or srt) regenerates the
\* document from the stored transcription result and saves it as
\* transcript.<kind>; it leaves the workflow step, the stored file and the
\* stored result unchanged, and a repeated download of the same kind produces
\* the same document as the one before it.
C11_DownloadFrame ==
    [][lastDownload' # lastDownload =>
          /\ step = 4 /\ Truthy(transcriptionResult)
          /\ step' = step /\ file' = file
          /\ transcriptionResult' = transcriptionResult
          /\ \E kind \in {"vtt", "srt"} :
                /\ lastDownload'.name = <<"transcript.", kind>>
                /\ lastDownload'.content =
                      createSubtitleFile(transcriptionResult'.text, kind)
          /\ (lastDownload'.name = lastDownload.name
                => lastDownload'.content = lastDownload.content)]_vars

\* C11 witness: the same kind was downloaded twice in a row in Complete.
C11_Witness ==
    /\ step = 4 /\ Truthy(transcriptionResult)
    /\ lastDownload.prev = lastDownload.name
    /\ lastDownload.name = <<"transcript.", "srt">>


\* A subtitle document read the way a WebVTT / SubRip player reads it: lines
\* are separated by line feeds, blocks by blank lines, and a cue is a block
\* holding a timing line; its number is the line before the timing line and
\* its text the lines after it.
RECURSIVE Split(_, _)
Split(s, sep) ==
    IF \A i \in DOMAIN s : s[i] # sep
    THEN <<s>>
    ELSE LET i == CHOOSE k \in DOMAIN s :
                     s[k] = sep /\ \A j \in 1..(k - 1) : s[j] # sep
         IN  <<SubSeq(s, 1, i - 1)>> \o Split(SubSeq(s, i + 1, Len(s)), sep)

RECURSIVE Join(_, _)
Join(parts, sep) ==
    IF parts = <<>> THEN <<>>
    ELSE IF Len(parts) = 1 THEN parts[1]
    ELSE parts[1] \o <<sep>> \o Join(Tail(parts), sep)

Lines(doc) == Split(doc, "\n")
NonEmptyBlock(b) == b # <<>>
Blocks(doc) == SelectSeq(Split(Lines(doc), <<>>), NonEmptyBlock)
VttTiming == <<"00:00:00.000 --> 00:00:10.000">>
SrtTiming == <<"00:00:00,000 --> 00:00:10,000">>
IsTiming(line) == line \in {VttTiming, SrtTiming}
IsCue(b) == \E i \in DOMAIN b : IsTiming(b[i])
Cues(doc) == SelectSeq(Blocks(doc), IsCue)
TimingAt(cue) == CHOOSE i \in DOMAIN cue : IsTiming(cue[i])
CueNumber(cue) == IF TimingAt(cue) > 1 THEN cue[TimingAt(cue) - 1] ELSE <<>>
CueTiming(cue) == cue[TimingAt(cue)]
CueText(cue) == Join(SubSeq(cue, TimingAt(cue) + 1, Len(cue)), "\n")
SingleCue(doc, timing, text) ==
    /\ Len(Cues(doc)) = 1
    /\ CueNumber(Cues(doc)[1]) = <<"1">>
    /\ CueTiming(Cues(doc)[1]) = timing
    /\ CueText(Cues(doc)[1]) = text
Saved(kind) == lastDownload.name = <<"transcript.", kind>>

\* C12: for every text, the vtt document begins with the line WEBVTT and
\* holds exactly one cue, numbered 1, spanning 00:00:00.000 --> 00:00:10.000
\* and holding the full text; the srt document has no WEBVTT header and is the
\* same single cue with comma millisecond separators; for the text
\* hello world the srt document is exactly the three lines
\* 1 / 00:00:00,000 --> 00:00:10,000 / hello world.
C12_FormatShape ==
    /\ Saved("vtt") =>
          /\ Lines(lastDownload.content)[1] = <<"WEBVTT">>
          /\ SingleCue(lastDownload.content, VttTiming, transcriptionResult.text)
    /\ Saved("srt") =>
          /\ Lines(lastDownload.content)[1] # <<"WEBVTT">>
          /\ SingleCue(lastDownload.content, SrtTiming, transcriptionResult.text)
          /\ (transcriptionResult.text = <<"hello", " ", "world">>
                => lastDownload.content =
                     <<"1", "\n", "00:00:00,000 --> 00:00:10,000", "\n",
                       "hello", " ", "world">>)


\* C13: when the engine is not initialized or the codec command fails, a
\* failure exit status included, convert fails: no run goes through convert
\* without an engine, and a run whose codec command ended with a failure exit
\* status holds no audio blob and does not go on to encode or transcribe.
C13_ConvertFailsOnCodecFailure ==
    \A r \in RunIds :
        /\ run[r].pc \in {"fetchFile", "writeFile", "exec", "readFile"}
              => run[r].inst # 0
        /\ run[r].execFailed
              => /\ run[r].audioBlob = NoBlob
                 /\ run[r].pc \notin {"encode", "transcribe", "post", "done"}


\* C14: exactly one codec engine instance is created per page session and it
\* is terminated when the UI unmounts; after teardown no engine operation of
\* a still-running initialization (load) or processing run (writeFile, exec,
\* readFile) is invoked on the terminated engine.
EnginesCreated == {i \in Instances : engine[i].created}
C14_OneEngineTornDown ==
    /\ [](/\ Cardinality(EnginesCreated) <= 1
          /\ phase = "mounted" => Cardinality(EnginesCreated) = 1
          /\ phase = "unmounted" => \A i \in EnginesCreated : engine[i].terminated)
    /\ [][/\ \A l \in LoadIds :
               load[l].pc = "fetch" /\ load'[l].pc = "engine"
                   => ~engine[load[l].inst].terminated
          /\ \A r \in RunIds :
               /\ run[r].pc = "fetchFile" /\ run'[r].pc = "writeFile"
                     => ~engine[run[r].inst].terminated
               /\ run[r].pc = "fetchFile" /\ run'[r].pc = "failed"
                     /\ lastError' = ErrNotLoaded
                     => ~engine[run[r].inst].terminated
               /\ run[r].pc \in {"writeFile", "exec"}
                     /\ run'[r].pc \in {"exec", "readFile"}
                     /\ run'[r].pc # run[r].pc
                     => ~engine[run[r].inst].terminated]_vars


\* C15: within a run the steps happen in the order convert, encode,
\* truncate, transcribe, each started only after the one before it returned:
\* nothing later is started while convert is under way, encode works on the
\* blob convert returned, and transcribe is invoked only after convert and
\* encode of the same run, with the truncation of that run's encode output.
C15_StepOrder ==
    \A r \in RunIds :
        /\ run[r].transcribeCalls <= run[r].encodeCalls
        /\ run[r].encodeCalls <= run[r].convertCalls
        /\ run[r].convertCalls <= 1
        /\ run[r].pc \in {"none", "load"} => run[r].convertCalls = 0
        /\ run[r].pc \in {"fetchFile", "writeFile", "exec", "readFile"}
              => /\ run[r].convertCalls = 1 /\ run[r].encodeCalls = 0
                 /\ run[r].audioBlob = NoBlob /\ run[r].base64Audio = NoStr
        /\ run[r].pc = "encode"
              => /\ run[r].encodeCalls = 1 /\ run[r].transcribeCalls = 0
                 /\ run[r].audioBlob # NoBlob /\ run[r].base64Audio = NoStr
        /\ run[r].pc \in {"transcribe", "post"}
              => /\ run[r].transcribeCalls = 1
                 /\ run[r].audioBlob # NoBlob
                 /\ run[r].base64Audio = Base64Of(run[r].audioBlob)
                 /\ run[r].payload = Truncate(run[r].base64Audio)
        /\ run[r].posts > 0 => run[r].transcribeCalls = 1

\* C15 witness: a run went through convert and encode, and transcribe was
\* invoked with a payload cut from the encode output.
C15_Witness ==
    \E r \in RunIds :
        /\ run[r].pc = "transcribe"
        /\ run[r].convertCalls = 1 /\ run[r].encodeCalls = 1
        /\ run[r].base64Audio.len > maxLength
        /\ run[r].payload = Truncate(Base64Of(run[r].audioBlob))


\* C16: the audio of a run is produced from the file selected for that run:
\* the blob convert returns, and the payload encoded from it, never come from
\* content an earlier run with a different file left under input.mp4 or
\* output.mp3 in the engine's virtual filesystem.
C16_AudioFromOwnFile ==
    \A r \in RunIds :
        /\ run[r].audioBlob # NoBlob => run[r].audioBlob.src = run[r].file
        /\ run[r].payload # NoStr => run[r].payload.src = run[r].file


\* C17: when every awaited external step settles, every processing run
\* ends, a mounted workflow that entered Processing reaches Complete or Idle
\* with isProcessing false, and isProcessing is false in every rendered state
\* outside Processing.
RunActive(r) == run[r].pc \notin {"none", "done", "failed"}
C17_RunsEnd ==
    /\ \A r \in RunIds : RunActive(r) ~> run[r].pc \in {"done", "failed"}
    /\ (phase = "mounted" /\ step = 3)
          ~> (phase = "unmounted" \/ (step \in {1, 4} /\ ~isProcessing))
    /\ [](phase = "mounted" /\ step # 3 => ~isProcessing)

\* C17 witness: both a failed and a completed run have ended, the workflow is
\* in Complete and isProcessing is false.
C17_Witness ==
    /\ phase = "mounted" /\ step = 4 /\ ~isProcessing
    /\ \E r, q \in RunIds : run[r].pc = "failed" /\ run[q].pc = "done"


\* C18: in every state the UI can render, isProcessing is true exactly when
\* the workflow is in Processing and a file is stored whenever it is in
\* FileSelected or Processing; the confirm action starts no run while an
\* engine initialization is in flight, and at most one engine initialization
\* is in progress at any time.
LoadsInFlight == {l \in LoadIds : load[l].pc \in {"fetch", "engine"}}
C18_FlagsConsistent ==
    /\ [](phase = "mounted" =>
             /\ isProcessing <=> step = 3
             /\ step \in {2, 3} => file # NoFile)
    /\ [](Cardinality(LoadsInFlight) <= 1)
    /\ [][nRuns' # nRuns => ~isLoading /\ LoadsInFlight = {}]_vars


\* C19: when the payload reaching transcribe is empty, transcribe fails with
\* 'No audio data provided' and issues no HTTP request, and the workflow goes
\* back to Idle with an alert instead of reaching Complete; a request is
\* only ever issued with a non-empty payload.
C19_EmptyPayloadRejected ==
    /\ [](\A r \in RunIds : run[r].pc = "post" => run[r].payload.len > 0)
    /\ [][\A r \in RunIds :
            run[r].pc = "transcribe" /\ run[r].payload.len = 0 /\ run'[r] # run[r]
                => /\ run'[r].pc = "failed"
                   /\ run'[r].posts = 0
                   /\ lastError' = ErrorOf(<<"No audio data provided">>)
                   /\ alertCount' = alertCount + 1
                   /\ phase = "mounted" => step' = 1 /\ ~isProcessing'
                   /\ transcriptionResult' = transcriptionResult]_vars

\* C19 witness: a run invoked transcribe with an empty payload and ended in
\* Idle with the alert, without a request.
C19_Witness ==
    /\ phase = "mounted" /\ step = 1
    /\ lastError = ErrorOf(<<"No audio data provided">>)
    /\ \E r \in RunIds :
          run[r].pc = "failed" /\ run[r].transcribeCalls = 1 /\ run[r].posts = 0

====
